---- MODULE Spec2Model ----
(***************************************************************************)
(* Model of the atomic inventory-adjustment engine of Software-Tienda:     *)
(* src/firebase_utils.py, functions _complete_order_atomic and             *)
(* _process_direct_sale_atomic, run inside Firestore transactions by       *)
(* FirebaseManager.complete_order / process_direct_sale.                   *)
(*                                                                         *)
(* A transaction attempt reads documents one at a time from the committed  *)
(* store, buffers its writes, and commits them in one step.  The commit    *)
(* is refused (and the function re-run) when a document the attempt read   *)
(* was written by somebody else in the meantime.                           *)
(***************************************************************************)
EXTENDS Integers, Sequences, FiniteSets, TLC

VARIABLES
    inventory,          \* collection 'inventory': item id -> document
    history,            \* sub-collection 'history' of each item, in insertion order
    orders,             \* collection 'orders': order id -> document
    pc,                 \* position of each caller inside its call
    call,               \* the arguments of each caller's current call
    txn,                \* the local state of each caller's transaction attempt
    result,             \* the tuple returned to each caller
    ncalls,             \* number of calls started so far
    initial_quantity,   \* the quantity of every item in the initial state
    sent,               \* the alerts handed to the notification service so far
    suppliers,          \* collection 'suppliers': supplier id -> document
    usb_sale_items      \* st.session_state.usb_sale_items: the sale being scanned

vars == <<inventory, history, orders, pc, call, txn, result, ncalls, initial_quantity,
          sent, suppliers, usb_sale_items>>

store == <<inventory, history, orders>>

-----------------------------------------------------------------------------
(* Bounds of the model.                                                    *)

MaxQty == 2         \* largest initial stock and largest requested quantity
MaxCalls == 2       \* number of complete_order / process_direct_sale calls
MinAlert == 1       \* the min_stock_alert threshold configured on SKU1
MaxContention == 6  \* number of calls, and stock of SKU1, under contention
MaxOps == 2         \* number of operations of the shop (calls included)

(* google-cloud-firestore re-runs a transactional function at most this    *)
(* many times (the default max_attempts of db.transaction()).              *)
MaxAttempts == 5

Procs == {"p1", "p2"}
ItemIds == {"SKU1", "SKU2", "SKU3"}     \* SKU3 has no document
OrderIds == {"O1", "O2", "O3"}          \* O3 has no document
SaleIds == {"SALE-001"}
SupplierIds == {"S1", "S2"}
None == "None"
NoId == "NoId"                          \* a line entry without the key 'id'

(* A line entry as the order form and the sale list build it: the item's   *)
(* id, its name and the quantity.                                          *)
NameOf(id) == <<"name", id>>
Line(id, q) == [id |-> id, name |-> NameOf(id), quantity |-> q]

(* The line-entry lists used as order ingredients and as direct sales:     *)
(* empty, one entry (negative, zero, positive quantity), two items, the    *)
(* same item twice, an entry without id, an entry for a missing item.      *)
LineLists ==
    { <<>> }
    \cup { <<Line("SKU1", q)>> : q \in (-1)..MaxQty }
    \cup { <<Line("SKU1", 1), Line("SKU2", q)>> : q \in {1, MaxQty} }
    \cup { <<Line("SKU1", 1), Line("SKU1", 2)>>,
           <<Line("SKU1", 1), Line(NoId, 1)>>,
           <<Line("SKU1", 1), Line("SKU3", 1)>> }

SaleLists ==
    { <<Line("SKU1", 1)>>,
      <<Line("SKU2", 1), Line("SKU1", MaxQty)>>,
      <<Line("SKU1", 1), Line("SKU1", 2)>>,
      <<Line(NoId, 1)>> }

-----------------------------------------------------------------------------
(* Documents.                                                              *)

(* An item document.  A quantity field that is absent reads as 0           *)
(* (item_data.get('quantity', 0)); the other fields are optional.          *)
ItemDoc(q, m) ==
    [exists |-> TRUE, quantity |-> q, min_stock_alert |-> m,
     purchase_price |-> <<>>, sale_price |-> <<>>]
NoItemDoc ==
    [exists |-> FALSE, quantity |-> 0, min_stock_alert |-> <<>>,
     purchase_price |-> <<>>, sale_price |-> <<>>]

OrderDoc(lines, title) ==
    [exists |-> TRUE, status |-> "processing", completed_at |-> None,
     title |-> title, ingredients |-> lines]
NoOrderDoc ==
    [exists |-> FALSE, status |-> None, completed_at |-> None,
     title |-> None, ingredients |-> <<>>]

(* A supplier document: only its name matters to the reads.               *)
SupplierDoc(name) == [exists |-> TRUE, name |-> name]
NoSupplierDoc == [exists |-> FALSE, name |-> <<>>]
NoSuppliers == [s \in SupplierIds |-> NoSupplierDoc]

NoCall == [op |-> None, order_id |-> None, items_sold |-> <<>>, sale_id |-> None]
NoResult == [ok |-> FALSE, message |-> <<>>, alerts |-> <<>>]

(* A fresh transaction attempt: nothing read, nothing buffered.            *)
NewTxn(attempt) ==
    [attempt |-> attempt, order_read |-> FALSE, order_data |-> NoOrderDoc,
     idx |-> 1, items_to_update |-> <<>>, writes |-> <<>>, oplog |-> <<>>,
     low_stock_alerts |-> <<>>, conflict |-> FALSE]

-----------------------------------------------------------------------------
(* Helpers of the two transactional functions.                             *)

(* An optional number: Unset when the field is absent, else Some(n).       *)
Unset == <<>>
Some(n) == <<n>>

(* Python truthiness of an optional number: None and 0 are false.          *)
Truthy(x) == x # Unset /\ x[1] # 0

(* Mutant: the stock check is off by one.                                  *)
SufficientStock_OffByOne(current_quantity, requested) == ~(current_quantity + 1 < requested)

(* The stock check of the read phase: the code raises when                 *)
(* current_quantity < requested.                                           *)
SufficientStock(current_quantity, requested) == ~(current_quantity < requested)

(* Mutant: the low-stock test misses the threshold itself.                 *)
LowStock_BelowOnly(min_stock_alert, new_quantity) ==
    /\ Truthy(min_stock_alert)
    /\ 0 < new_quantity
    /\ new_quantity < min_stock_alert[1]

(* Mutant: the low-stock test also fires for a quantity of 0.              *)
LowStock_IncludesZero(min_stock_alert, new_quantity) ==
    /\ Truthy(min_stock_alert)
    /\ 0 <= new_quantity
    /\ new_quantity <= min_stock_alert[1]

(* The low-stock test of the write phase:                                  *)
(* min_stock_alert and 0 < new_quantity <= min_stock_alert.                *)
LowStock(min_stock_alert, new_quantity) ==
    /\ Truthy(min_stock_alert)
    /\ 0 < new_quantity
    /\ new_quantity <= min_stock_alert[1]

LowStockAlert(u) ==
    [id |-> u.id, new_quantity |-> u.new_quantity,
     min_stock_alert |-> u.item_data.min_stock_alert]

(* Buffered write operations of a transaction.                             *)
UpdateItem(id, q) ==
    [op |-> "update", coll |-> "inventory", id |-> id, quantity |-> q, data |-> None]
SetHistory(id, rec) ==
    [op |-> "set", coll |-> "history", id |-> id, quantity |-> 0, data |-> rec]
UpdateOrder(o) ==
    [op |-> "update", coll |-> "orders", id |-> o, quantity |-> 0, data |-> None]

OrderHistory(u, order_id, order_data) ==
    [type |-> "Venta (Pedido)", quantity_change |-> 0 - u.ing_quantity,
     details |-> <<"Pedido ID", order_id,
                   IF order_data.title = None THEN "N/A" ELSE order_data.title>>]

SaleHistory(u, sale_id) ==
    [type |-> "Venta Directa", quantity_change |-> 0 - u.sold_quantity,
     details |-> <<"ID de Venta", sale_id>>]

(* Mutant: the read loop updates the item right after reading it.          *)
AfterItemRead_WritesAtOnce(t, u) ==
    [t EXCEPT !.items_to_update = Append(@, u),
              !.idx = @ + 1,
              !.writes = Append(@, UpdateItem(u.id, u.new_quantity)),
              !.oplog = @ \o <<"r", "w">>]

(* What the read loop does with an item that passed its checks: it is      *)
(* remembered in items_to_update; nothing is written yet.                  *)
AfterItemRead(t, u) ==
    [t EXCEPT !.items_to_update = Append(@, u),
              !.idx = @ + 1,
              !.oplog = Append(@, "r")]

(* Write phase of _complete_order_atomic: per item the quantity update and *)
(* the history record, the low-stock alerts, then the order update.        *)
complete_order_write_phase(t, order_id) ==
    LET upd == t.items_to_update
        n == Len(upd)
        ws == [j \in 1..(2 * n) |->
                 IF j % 2 = 1
                 THEN UpdateItem(upd[(j + 1) \div 2].id, upd[(j + 1) \div 2].new_quantity)
                 ELSE SetHistory(upd[j \div 2].id,
                                 OrderHistory(upd[j \div 2], order_id, t.order_data))]
        low == SelectSeq(upd, LAMBDA u : LowStock(u.item_data.min_stock_alert, u.new_quantity))
    IN [t EXCEPT !.writes = @ \o ws \o <<UpdateOrder(order_id)>>,
                 !.oplog = @ \o [j \in 1..(2 * n + 1) |-> "w"],
                 !.low_stock_alerts = [k \in 1..Len(low) |-> LowStockAlert(low[k])]]

(* Write phase of _process_direct_sale_atomic: the same, without an order. *)
process_direct_sale_write_phase(t, sale_id) ==
    LET upd == t.items_to_update
        n == Len(upd)
        ws == [j \in 1..(2 * n) |->
                 IF j % 2 = 1
                 THEN UpdateItem(upd[(j + 1) \div 2].id, upd[(j + 1) \div 2].new_quantity)
                 ELSE SetHistory(upd[j \div 2].id, SaleHistory(upd[j \div 2], sale_id))]
        low == SelectSeq(upd, LAMBDA u : LowStock(u.item_data.min_stock_alert, u.new_quantity))
    IN [t EXCEPT !.writes = @ \o ws,
                 !.oplog = @ \o [j \in 1..(2 * n) |-> "w"],
                 !.low_stock_alerts = [k \in 1..Len(low) |-> LowStockAlert(low[k])]]

(* The exceptions of the read phase, by what their message carries.        *)
OrderNotFoundError == <<"OrderNotFound">>

MissingIdError(ing) == <<"MalformedLineEntry", ing.name>>

ItemNotFoundError(ing) == <<"ItemNotFound", ing.name>>

(* Mutant: the message reports the two quantities the wrong way round.     *)
InsufficientStockError_Swapped(ing, current_quantity) ==
    <<"InsufficientStock", ing.name, current_quantity, ing.quantity>>

(* "Stock insuficiente para '<name>'. Se necesitan <quantity>, hay          *)
(* <current_quantity>."                                                    *)
InsufficientStockError(ing, current_quantity) ==
    <<"InsufficientStock", ing.name, ing.quantity, current_quantity>>

-----------------------------------------------------------------------------
(* The transaction substrate (firestore.transactional, db.transaction()).  *)

StoreRec == [inventory |-> inventory, history |-> history, orders |-> orders]

(* Mutant: setting a history document replaces the item's last record.    *)
ApplyWrite_ReplacesLast(s, w) ==
    IF w.coll = "inventory"
    THEN [s EXCEPT !.inventory[w.id].quantity = w.quantity]
    ELSE IF w.coll = "history"
    THEN [s EXCEPT !.history[w.id] = Append(SubSeq(@, 1, Len(@) - 1), w.data)]
    ELSE [s EXCEPT !.orders[w.id].status = "completed",
                   !.orders[w.id].completed_at = "now"]

(* Mutant: the order update rewrites the line entries from their id and    *)
(* quantity, without the price snapshots.                                  *)
ApplyWrite_DropsSnapshots(s, w) ==
    IF w.coll = "inventory"
    THEN [s EXCEPT !.inventory[w.id].quantity = w.quantity]
    ELSE IF w.coll = "history"
    THEN [s EXCEPT !.history[w.id] = Append(@, w.data)]
    ELSE [s EXCEPT !.orders[w.id].status = "completed",
                   !.orders[w.id].completed_at = "now",
                   !.orders[w.id].ingredients =
                        [k \in 1..Len(@) |-> Line(@[k].id, @[k].quantity)]]

ApplyWrite(s, w) ==
    IF w.coll = "inventory"
    THEN [s EXCEPT !.inventory[w.id].quantity = w.quantity]
    ELSE IF w.coll = "history"
    THEN [s EXCEPT !.history[w.id] = Append(@, w.data)]
    ELSE [s EXCEPT !.orders[w.id].status = "completed",
                   !.orders[w.id].completed_at = "now"]

RECURSIVE ApplyWrites(_, _)
ApplyWrites(s, ws) ==
    IF ws = <<>> THEN s ELSE ApplyWrites(ApplyWrite(s, Head(ws)), Tail(ws))

(* A commit applies every buffered write, in order, in one step.           *)
Commit(s, ws) == ApplyWrites(s, ws)

(* Mutant: the rollback leaves the buffered writes applied.                *)
Rollback_AppliesWrites(s, ws) == ApplyWrites(s, ws)

(* A rollback discards the buffered writes.                                *)
Rollback(s, ws) == s

(* The documents an attempt has read, and those a commit writes to         *)
(* (history documents are new documents nobody has read).                  *)
ReadSet(t, c) ==
    (IF t.order_read THEN {<<"orders", c.order_id>>} ELSE {})
    \cup {<<"inventory", t.items_to_update[k].id>> : k \in 1..Len(t.items_to_update)}

WriteSet(ws) ==
    {<<ws[k].coll, ws[k].id>> : k \in {j \in 1..Len(ws) : ws[j].coll # "history"}}

(* Mutant: commits never conflict (no optimistic concurrency control).     *)
Conflicts_Never(t, c, ws) == FALSE

(* Another transaction's commit of ws invalidates the attempt t when it    *)
(* writes a document t has read: t's own commit will be aborted.           *)
Conflicts(t, c, ws) == ReadSet(t, c) \cap WriteSet(ws) # {}

InFlight(p) == pc[p] \in {"read_order", "read_items"}

Invalidate(p, ws) ==
    [q \in Procs |->
        IF q # p /\ InFlight(q) /\ Conflicts(txn[q], call[q], ws)
        THEN [txn[q] EXCEPT !.conflict = TRUE]
        ELSE txn[q]]

(* The result tuples of FirebaseManager.complete_order/process_direct_sale.*)
(* Mutant: the failure result hands back what the attempt had collected.   *)
Failure_KeepsCause(cause) ==
    [ok |-> FALSE, message |-> <<"Error en la transaccion">> \o cause, alerts |-> cause]

Failure(cause) ==
    [ok |-> FALSE, message |-> <<"Error en la transaccion">> \o cause, alerts |-> <<>>]
Success(msg, alerts) == [ok |-> TRUE, message |-> msg, alerts |-> alerts]

-----------------------------------------------------------------------------
(* Initial states: two items with stock, two orders in process.            *)

InitialHistory(q) ==
    <<[type |-> "Stock Inicial", quantity_change |-> q,
       details |-> <<"Articulo creado en el sistema.">>]>>

FirstOrderDocs ==
    {OrderDoc(l, "T") : l \in LineLists} \cup {OrderDoc(<<Line("SKU1", 1)>>, None)}

SecondOrderDocs == {OrderDoc(<<Line("SKU1", q)>>, "T") : q \in {0, MaxQty}}

Init ==
    /\ \E q1 \in 0..MaxQty, q2 \in {1} :
          /\ inventory = [i \in ItemIds |->
                            CASE i = "SKU1" -> ItemDoc(q1, Some(MinAlert))
                              [] i = "SKU2" -> ItemDoc(q2, Unset)
                              [] OTHER -> NoItemDoc]
          /\ history = [i \in ItemIds |->
                            CASE i = "SKU1" -> InitialHistory(q1)
                              [] i = "SKU2" -> InitialHistory(q2)
                              [] OTHER -> <<>>]
    /\ \E d1 \in FirstOrderDocs, d2 \in SecondOrderDocs :
          orders = [o \in OrderIds |->
                        CASE o = "O1" -> d1 [] o = "O2" -> d2 [] OTHER -> NoOrderDoc]
    /\ pc = [p \in Procs |-> "idle"]
    /\ call = [p \in Procs |-> NoCall]
    /\ txn = [p \in Procs |-> NewTxn(0)]
    /\ result = [p \in Procs |-> NoResult]
    /\ ncalls = 0
    /\ initial_quantity = [i \in ItemIds |-> inventory[i].quantity]
    /\ sent = {}
    /\ suppliers = NoSuppliers
    /\ usb_sale_items = <<>>

-----------------------------------------------------------------------------
(* The calls.                                                              *)

(* The line entries the read loop iterates over.                           *)
Lines(p) ==
    IF call[p].op = "complete_order"
    THEN txn[p].order_data.ingredients
    ELSE call[p].items_sold

(* The first step of an attempt of the caller's function.                  *)
StartPc(c) == IF c.op = "complete_order" THEN "read_order" ELSE "read_items"

(* The exception leaves the transactional function: the transaction is     *)
(* rolled back and the manager returns (False, message, []).               *)
Raise(p, t, cause) ==
    LET s == Rollback(StoreRec, t.writes)
    IN /\ inventory' = s.inventory
       /\ history' = s.history
       /\ orders' = s.orders
       /\ txn' = [txn EXCEPT ![p] = NewTxn(t.attempt)]
       /\ result' = [result EXCEPT ![p] = Failure(cause)]
       /\ pc' = [pc EXCEPT ![p] = "done"]
       /\ UNCHANGED <<call, ncalls, initial_quantity, sent, suppliers, usb_sale_items>>

(* Caller p makes call c: a transaction is created and the transactional   *)
(* function starts its first attempt.                                      *)
Start(p, c) ==
    /\ pc[p] \in {"idle", "done"}
    /\ ncalls' = ncalls + 1
    /\ call' = [call EXCEPT ![p] = c]
    /\ txn' = [txn EXCEPT ![p] = NewTxn(1)]
    /\ result' = [result EXCEPT ![p] = NoResult]
    /\ pc' = [pc EXCEPT ![p] = StartPc(c)]
    /\ UNCHANGED <<inventory, history, orders, initial_quantity, sent, suppliers, usb_sale_items>>

CompleteOrderCall(o) ==
    [op |-> "complete_order", order_id |-> o, items_sold |-> <<>>, sale_id |-> None]

DirectSaleCall(items, sid) ==
    [op |-> "process_direct_sale", order_id |-> None, items_sold |-> items, sale_id |-> sid]

(* FirebaseManager.complete_order(order_id) is called.                     *)
Begin_complete_order(p, o) ==
    /\ ncalls < MaxCalls
    /\ Start(p, CompleteOrderCall(o))

(* FirebaseManager.process_direct_sale(items_sold, sale_id) is called.     *)
Begin_process_direct_sale(p, items, sid) ==
    /\ ncalls < MaxCalls
    /\ Start(p, DirectSaleCall(items, sid))

(* _complete_order_atomic: the order is read.                              *)
ReadOrder(p) ==
    /\ pc[p] = "read_order"
    /\ LET snap == orders[call[p].order_id]
           t == [txn[p] EXCEPT !.oplog = Append(@, "r"), !.order_read = TRUE]
       IN IF ~snap.exists
          THEN Raise(p, t, OrderNotFoundError)
          ELSE /\ txn' = [txn EXCEPT ![p] = [t EXCEPT !.order_data = snap]]
               /\ pc' = [pc EXCEPT ![p] = "read_items"]
               /\ UNCHANGED <<inventory, history, orders, call, result, ncalls,
                              initial_quantity, sent, suppliers, usb_sale_items>>

(* One iteration of the read loop of either function.                      *)
ReadItem(p) ==
    /\ pc[p] = "read_items"
    /\ txn[p].idx <= Len(Lines(p))
    /\ LET entry == Lines(p)[txn[p].idx]
           isOrder == call[p].op = "complete_order"
       IN IF entry.id = NoId
          THEN Raise(p, txn[p],
                     IF isOrder THEN MissingIdError(entry)
                                ELSE <<"KeyError", "id">>)
          ELSE LET item_data == inventory[entry.id]
                   current_quantity == item_data.quantity
                   new_quantity == current_quantity - entry.quantity
                   read == [txn[p] EXCEPT !.oplog = Append(@, "r")]
                   u == IF isOrder
                        THEN [id |-> entry.id, new_quantity |-> new_quantity,
                              item_data |-> item_data, ing_quantity |-> entry.quantity]
                        ELSE [id |-> entry.id, new_quantity |-> new_quantity,
                              item_data |-> item_data, sold_quantity |-> entry.quantity]
               IN IF ~item_data.exists
                  THEN Raise(p, read, ItemNotFoundError(entry))
                  ELSE IF ~SufficientStock(current_quantity, entry.quantity)
                  THEN Raise(p, read, InsufficientStockError(entry, current_quantity))
                  ELSE /\ txn' = [txn EXCEPT ![p] = AfterItemRead(txn[p], u)]
                       /\ UNCHANGED <<inventory, history, orders, pc, call, result,
                                      ncalls, initial_quantity, sent, suppliers, usb_sale_items>>

(* Mutant: an aborted commit is retried without limit.                     *)
MayRetry_Unbounded(t) == t.conflict

(* The commit of an attempt whose reads were invalidated is aborted; the    *)
(* function is run again unless this was the last attempt.                 *)
MayRetry(t) == t.conflict /\ t.attempt < MaxAttempts

(* Mutant: the next attempt starts with the writes the aborted one had     *)
(* buffered.                                                               *)
Retry_KeepsBuffer(t) == [NewTxn(t.attempt + 1) EXCEPT !.writes = t.writes]

(* The aborted attempt is discarded and the function is run again from its *)
(* first line.                                                             *)
Retry(t) == NewTxn(t.attempt + 1)

(* The write phase, the return statement and the commit of the attempt.    *)
Finish(p) ==
    /\ pc[p] = "read_items"
    /\ txn[p].idx > Len(Lines(p))
    /\ LET c == call[p]
           isOrder == c.op = "complete_order"
           t == IF isOrder
                THEN complete_order_write_phase(txn[p], c.order_id)
                ELSE process_direct_sale_write_phase(txn[p], c.sale_id)
       IN IF isOrder /\ t.order_data.title = None
          THEN Raise(p, t, <<"KeyError", "title">>)
          ELSE IF MayRetry(t)
          THEN /\ txn' = [txn EXCEPT ![p] = Retry(t)]
               /\ pc' = [pc EXCEPT ![p] = StartPc(c)]
               /\ UNCHANGED <<inventory, history, orders, call, result, ncalls,
                              initial_quantity, sent, suppliers, usb_sale_items>>
          ELSE IF t.conflict
          THEN Raise(p, t, <<"CommitFailed", MaxAttempts>>)
          ELSE LET s == Commit(StoreRec, t.writes)
               IN /\ inventory' = s.inventory
                  /\ history' = s.history
                  /\ orders' = s.orders
                  /\ txn' = [Invalidate(p, t.writes) EXCEPT ![p] = t]
                  /\ result' = [result EXCEPT ![p] =
                        Success(IF isOrder THEN <<"Pedido completado", t.order_data.title>>
                                           ELSE <<"Venta procesada", c.sale_id>>,
                                t.low_stock_alerts)]
                  /\ pc' = [pc EXCEPT ![p] = "done"]
                  /\ UNCHANGED <<call, ncalls, initial_quantity, sent, suppliers, usb_sale_items>>

(* A store call of the attempt fails for a reason other than a conflict    *)
(* (network, quota, deadline): the exception is not retried.               *)
StoreError(p) ==
    /\ InFlight(p)
    /\ Raise(p, txn[p], <<"StoreError">>)

Next ==
    \E p \in Procs :
        \/ \E o \in OrderIds : Begin_complete_order(p, o)
        \/ \E items \in SaleLists, sid \in SaleIds : Begin_process_direct_sale(p, items, sid)
        \/ ReadOrder(p)
        \/ ReadItem(p)
        \/ Finish(p)
        \/ StoreError(p)

Spec == Init /\ [][Next]_vars

-----------------------------------------------------------------------------
(* Contention: the till (p2) keeps selling one unit of SKU1 while another   *)
(* session (p1) completes order O1, which needs the same item.  Every step *)
(* of a running call is eventually taken (the call runs in its own         *)
(* thread); a store failure may or may not happen.                         *)

ContentionInit ==
    /\ inventory = [i \in ItemIds |->
                      IF i = "SKU1" THEN ItemDoc(MaxContention, Some(MinAlert))
                      ELSE NoItemDoc]
    /\ history = [i \in ItemIds |->
                      IF i = "SKU1" THEN InitialHistory(MaxContention) ELSE <<>>]
    /\ orders = [o \in OrderIds |->
                      IF o = "O1" THEN OrderDoc(<<Line("SKU1", 1)>>, "T") ELSE NoOrderDoc]
    /\ pc = [p \in Procs |-> "idle"]
    /\ call = [p \in Procs |-> NoCall]
    /\ txn = [p \in Procs |-> NewTxn(0)]
    /\ result = [p \in Procs |-> NoResult]
    /\ ncalls = 0
    /\ initial_quantity = [i \in ItemIds |-> inventory[i].quantity]
    /\ sent = {}
    /\ suppliers = NoSuppliers
    /\ usb_sale_items = <<>>

ContendedCompletion(p) ==
    /\ p = "p1"
    /\ pc[p] = "idle"
    /\ ncalls < MaxContention
    /\ Start(p, CompleteOrderCall("O1"))

ContendingSale(p, sid) ==
    /\ p = "p2"
    /\ ncalls < MaxContention
    /\ Start(p, DirectSaleCall(<<Line("SKU1", 1)>>, sid))

ContentionNext ==
    \E p \in Procs :
        \/ ContendedCompletion(p)
        \/ \E sid \in SaleIds : ContendingSale(p, sid)
        \/ ReadOrder(p)
        \/ ReadItem(p)
        \/ Finish(p)
        \/ StoreError(p)

ContentionSpec ==
    /\ ContentionInit
    /\ [][ContentionNext]_vars
    /\ \A p \in Procs :
          WF_vars(ReadOrder(p)) /\ WF_vars(ReadItem(p)) /\ WF_vars(Finish(p))

-----------------------------------------------------------------------------
(* The shop: the order and inventory operations of FirebaseManager and the *)
(* handlers of app.py that call them, next to the stock adjuster.          *)

(* dict.get(key, default) on an optional field.                            *)
Get(x, default) == IF x = Unset THEN default ELSE x[1]

(* The partial item data of an upsert: every field is optional.            *)
ItemData(q, m, pp, sp) ==
    [quantity |-> q, min_stock_alert |-> m, purchase_price |-> pp, sale_price |-> sp]

(* doc_ref.set(data, merge=True): the fields of data replace those of the  *)
(* document, the other fields stay; the document is created if absent.     *)
Merge(doc, data) ==
    [exists |-> TRUE,
     quantity |-> Get(data.quantity, doc.quantity),
     min_stock_alert |->
        IF data.min_stock_alert = Unset THEN doc.min_stock_alert ELSE data.min_stock_alert,
     purchase_price |->
        IF data.purchase_price = Unset THEN doc.purchase_price ELSE data.purchase_price,
     sale_price |->
        IF data.sale_price = Unset THEN doc.sale_price ELSE data.sale_price]

(* Mutant: an update that is not a creation is recorded only when it       *)
(* changes the quantity.                                                   *)
UpsertHistory_OnlyQuantity(h, data, is_new, details) ==
    IF ~is_new /\ data.quantity = Unset THEN h
    ELSE Append(h, [type |-> IF is_new THEN "Stock Inicial" ELSE "Ajuste Manual",
                    quantity_change |-> Get(data.quantity, None),
                    details |-> IF details # None THEN <<details>>
                                ELSE IF is_new THEN <<"Articulo creado en el sistema.">>
                                ELSE <<"Articulo actualizado manualmente.">>])

(* The history record save_inventory_item adds, whatever the data.         *)
UpsertHistory(h, data, is_new, details) ==
    Append(h, [type |-> IF is_new THEN "Stock Inicial" ELSE "Ajuste Manual",
               quantity_change |-> Get(data.quantity, None),
               details |-> IF details # None THEN <<details>>
                           ELSE IF is_new THEN <<"Articulo creado en el sistema.">>
                           ELSE <<"Articulo actualizado manualmente.">>])

(* create_order enriches a line entry with the prices of its item when the *)
(* lookup returns the item, and leaves it as it is otherwise.              *)
Enrich(ing, item_details) ==
    IF item_details.exists
    THEN [id |-> ing.id, name |-> ing.name, quantity |-> ing.quantity,
          purchase_price |-> Get(item_details.purchase_price, 0),
          sale_price |-> Get(item_details.sale_price, 0)]
    ELSE ing

(* get_inventory_item_details: the item, or None when it does not exist or *)
(* the read fails.                                                         *)
get_inventory_item_details(doc_id, read_fails) ==
    IF read_fails THEN NoItemDoc ELSE inventory[doc_id]

(* A deleted order document reads as not existing; the store never hands   *)
(* its id out again.                                                       *)
DeletedOrderDoc == [NoOrderDoc EXCEPT !.status = "deleted"]

(* Mutant: the deletion takes the other orders with it.                    *)
DeleteOrder_All(os, order_id) ==
    [o \in OrderIds |-> IF os[o].exists THEN DeletedOrderDoc ELSE os[o]]

(* db.collection('orders').document(order_id).delete(): nothing happens    *)
(* when there is no such document.                                         *)
DeleteOrder(os, order_id) ==
    IF os[order_id].exists THEN [os EXCEPT ![order_id] = DeletedOrderDoc] ELSE os

(* The ids the store can hand out to a new order document.                 *)
FreshOrderIds == {o \in OrderIds : orders[o] = NoOrderDoc}

(* The record of an operation of the shop made by caller p, and what it    *)
(* returned: None, or the exception it raised.                             *)
Returned_None == [ok |-> TRUE, message |-> <<>>, alerts |-> <<>>]
Raised(e) == [ok |-> FALSE, message |-> <<"raised", e>>, alerts |-> <<>>]

Operation(p, c, r) ==
    /\ pc[p] = "idle"
    /\ ncalls < MaxOps
    /\ ncalls' = ncalls + 1
    /\ call' = [call EXCEPT ![p] = c]
    /\ result' = [result EXCEPT ![p] = r]
    /\ UNCHANGED <<pc, initial_quantity>>

(* The alerts a handler sends after its call has returned.                 *)
LowStockMessages(alerts) == {<<"ALERTA DE STOCK", alerts[k]>> : k \in 1..Len(alerts)}

(* Mutant: the alerts are sent whatever the call returned.                 *)
AlertsFor_Always(c, r, title) ==
    (IF c.op = "complete_order"
     THEN {<<"Pedido Completado", title>>}
     ELSE {<<"Venta Rapida Procesada", c.sale_id>>})
    \cup LowStockMessages(r.alerts)

AlertsFor(c, r, title) ==
    IF r.ok
    THEN (IF c.op = "complete_order"
          THEN {<<"Pedido Completado", title>>}
          ELSE {<<"Venta Rapida Procesada", c.sale_id>>})
         \cup LowStockMessages(r.alerts)
    ELSE {}

(* send_whatsapp_alert for each message: a message is handed to the        *)
(* service, or not (no client configured, delivery error caught).          *)
Send(msgs) == \E delivered \in SUBSET msgs : sent' = sent \cup delivered

(* "Completar Pedido": firebase.complete_order(order['id']) is called for  *)
(* an order of the page, which may show an order as it was earlier.        *)
CompleteOrderButton(p, o) ==
    /\ pc[p] = "idle"
    /\ Begin_complete_order(p, o)

(* "Finalizar y Descontar Stock": firebase.process_direct_sale is called.  *)
FinalizeSaleButton(p, items, sid) ==
    /\ pc[p] = "idle"
    /\ Begin_process_direct_sale(p, items, sid)

(* The rest of the two handlers, once the call has returned: on success    *)
(* the completion or sale alert and the low-stock alerts are sent.         *)
Notify(p) ==
    /\ pc[p] = "done"
    /\ Send(AlertsFor(call[p], result[p],
                      IF call[p].op = "complete_order"
                      THEN txn[p].order_data.title ELSE None))
    /\ pc' = [pc EXCEPT ![p] = "idle"]
    /\ UNCHANGED <<inventory, history, orders, call, txn, result, ncalls,
                   initial_quantity, suppliers, usb_sale_items>>

(* FirebaseManager.cancel_order(order_id).                                 *)
cancel_order(p, order_id, fails) ==
    /\ Operation(p, [op |-> "cancel_order", order_id |-> order_id, n |-> ncalls + 1],
                 IF fails THEN Raised("StoreError") ELSE Returned_None)
    /\ orders' = IF fails THEN orders ELSE DeleteOrder(orders, order_id)
    /\ txn' = IF fails THEN txn ELSE Invalidate(p, <<UpdateOrder(order_id)>>)
    /\ UNCHANGED <<inventory, history, sent, suppliers, usb_sale_items>>

(* "Crear Pedido": FirebaseManager.create_order(order_data), then the      *)
(* alert about the new order.                                              *)
create_order(p, title, ingredients, read_fails) ==
    LET enriched == [k \in 1..Len(ingredients) |->
                        Enrich(ingredients[k],
                               get_inventory_item_details(ingredients[k].id, read_fails))]
        keyError == \E k \in 1..Len(ingredients) : ingredients[k].id = NoId
        c == [op |-> "create_order", title |-> title, ingredients |-> ingredients,
              n |-> ncalls + 1]
    IN IF keyError
       THEN /\ Operation(p, c, Raised("KeyError"))
            /\ UNCHANGED <<inventory, history, orders, txn, sent, suppliers, usb_sale_items>>
       ELSE /\ FreshOrderIds # {}
            /\ LET o == CHOOSE x \in FreshOrderIds : TRUE
               IN /\ orders' = [orders EXCEPT ![o] = OrderDoc(enriched, title)]
                  /\ Operation(p, c, [Returned_None EXCEPT !.message = <<o>>])
            /\ Send({<<"Nuevo Pedido", title>>})
            /\ UNCHANGED <<inventory, history, txn, suppliers, usb_sale_items>>

(* FirebaseManager.save_inventory_item(data, custom_id, is_new, details).  *)
(* The document is set, then the history record is added; fails tells      *)
(* which of the two store calls raises, if any.  When the second one fails *)
(* the exception is raised with the document already set.                  *)
save_inventory_item(p, data, custom_id, is_new, details, fails) ==
    /\ Operation(p, [op |-> "save_inventory_item", data |-> data, custom_id |-> custom_id,
                     is_new |-> is_new, details |-> details, n |-> ncalls + 1],
                 IF fails = None THEN Returned_None ELSE Raised("StoreError"))
    /\ inventory' = IF fails = "set" THEN inventory
                    ELSE [inventory EXCEPT ![custom_id] = Merge(@, data)]
    /\ history' = IF fails = None
                  THEN [history EXCEPT ![custom_id] = UpsertHistory(@, data, is_new, details)]
                  ELSE history
    /\ txn' = IF fails = "set" THEN txn ELSE Invalidate(p, <<UpdateItem(custom_id, 0)>>)
    /\ UNCHANGED <<orders, sent, suppliers, usb_sale_items>>

(* FirebaseManager.delete_inventory_item(doc_id): the history documents    *)
(* of the item stay.                                                       *)
delete_inventory_item(p, doc_id) ==
    /\ Operation(p, [op |-> "delete_inventory_item", doc_id |-> doc_id, n |-> ncalls + 1],
                 Returned_None)
    /\ inventory' = [inventory EXCEPT ![doc_id] = NoItemDoc]
    /\ txn' = Invalidate(p, <<UpdateItem(doc_id, 0)>>)
    /\ UNCHANGED <<history, orders, sent, suppliers, usb_sale_items>>

(* The inputs of the shop's operations.                                    *)
ShopSales == {<<Line("SKU1", 1)>>}

(* New orders: one item, an item without prices, an item that does not     *)
(* exist, an entry without id; the last flag makes the item lookup fail.   *)
NewOrders ==
    {<<<<Line("SKU1", 1)>>, FALSE>>,
     <<<<Line("SKU1", 1), Line("SKU2", 1)>>, FALSE>>,
     <<<<Line("SKU1", 1), Line("SKU3", 1)>>, FALSE>>,
     <<<<Line("SKU1", 1)>>, TRUE>>,
     <<<<Line(NoId, 1)>>, FALSE>>}

(* Upserts <<data, custom_id, is_new>>: a new item, a stock and price      *)
(* update, a price edit, an edit of fields the model does not hold.        *)
Upserts ==
    {<<ItemData(Some(MaxQty), Unset, Some(12), Some(20)), "SKU3", TRUE>>,
     <<ItemData(Some(MaxQty), Unset, Unset, Some(20)), "SKU1", FALSE>>,
     <<ItemData(Unset, Unset, Unset, Some(20)), "SKU1", FALSE>>,
     <<ItemData(Unset, Unset, Unset, Unset), "SKU1", FALSE>>}

(* The shop at the start: SKU1 with prices and a threshold, SKU2 without   *)
(* prices, and order O1, created earlier with the prices of SKU1.          *)
ShopInit ==
    /\ inventory = [i \in ItemIds |->
                      CASE i = "SKU1" ->
                             Merge(ItemDoc(MaxQty, Some(MinAlert)),
                                   ItemData(Unset, Unset, Some(10), Some(15)))
                        [] i = "SKU2" -> ItemDoc(1, Unset)
                        [] OTHER -> NoItemDoc]
    /\ history = [i \in ItemIds |->
                      CASE i = "SKU1" -> InitialHistory(MaxQty)
                        [] i = "SKU2" -> InitialHistory(1)
                        [] OTHER -> <<>>]
    /\ \E q \in 1..MaxQty :
          orders = [o \in OrderIds |->
                      IF o = "O1"
                      THEN OrderDoc(<<Enrich(Line("SKU1", q), inventory["SKU1"])>>, "T")
                      ELSE NoOrderDoc]
    /\ pc = [p \in Procs |-> "idle"]
    /\ call = [p \in Procs |-> NoCall]
    /\ txn = [p \in Procs |-> NewTxn(0)]
    /\ result = [p \in Procs |-> NoResult]
    /\ ncalls = 0
    /\ initial_quantity = [i \in ItemIds |-> inventory[i].quantity]
    /\ sent = {}
    /\ suppliers = NoSuppliers
    /\ usb_sale_items = <<>>

ShopNext ==
    \E p \in Procs :
        \/ \E o \in OrderIds : CompleteOrderButton(p, o)
        \/ \E items \in ShopSales, sid \in SaleIds : FinalizeSaleButton(p, items, sid)
        \/ ReadOrder(p)
        \/ ReadItem(p)
        \/ Finish(p)
        \/ StoreError(p)
        \/ Notify(p)
        \/ \E o \in OrderIds, fails \in BOOLEAN : cancel_order(p, o, fails)
        \/ \E o \in NewOrders : create_order(p, "T2", o[1], o[2])
        \/ \E u \in Upserts, fails \in {None, "set", "add"} :
              save_inventory_item(p, u[1], u[2], u[3], None, fails)
        \/ \E i \in {"SKU1", "SKU2"} : delete_inventory_item(p, i)

ShopSpec == ShopInit /\ [][ShopNext]_vars

-----------------------------------------------------------------------------
(* Vocabulary of the properties.                                           *)

(* The step is the one in which caller p's call returns.                   *)
Returns(p) == pc[p] # "done" /\ pc'[p] = "done"

(* The step is a step of caller p's call.                                  *)
StepOf(p) == pc'[p] # pc[p] \/ txn'[p].idx # txn[p].idx \/ txn'[p].attempt # txn[p].attempt

Quantities == [i \in ItemIds |-> inventory[i].quantity]

(* Caller p is about to read an item of which its line entry requests more *)
(* than the stock: applying the entry would drive the item below zero.     *)
WouldGoNegative(p) ==
    /\ pc[p] = "read_items"
    /\ txn[p].idx <= Len(Lines(p))
    /\ Lines(p)[txn[p].idx].id \in ItemIds
    /\ inventory[Lines(p)[txn[p].idx].id].exists
    /\ inventory[Lines(p)[txn[p].idx].id].quantity - Lines(p)[txn[p].idx].quantity < 0

NonNegative == \A i \in ItemIds : inventory[i].quantity >= 0

-----------------------------------------------------------------------------
(* C1: in every reachable state every item's quantity is >= 0, and the     *)
(* step of a call whose line entry would drive an item below zero ends the *)
(* call with ok = False and changes no item's quantity.                    *)
C1_NonNegativeQuantities ==
    /\ []NonNegative
    /\ [][\A p \in Procs :
            WouldGoNegative(p) /\ StepOf(p)
                => /\ Returns(p)
                   /\ ~result'[p].ok
                   /\ Quantities' = Quantities]_vars

(* A call was refused for insufficient stock after another one sold an     *)
(* item out.                                                               *)
C1_Witness ==
    \E p \in Procs, q \in Procs :
        /\ pc[p] = "done" /\ ~result[p].ok
        /\ Len(result[p].message) > 1 /\ result[p].message[2] = "InsufficientStock"
        /\ pc[q] = "done" /\ result[q].ok
        /\ inventory["SKU1"].quantity = 0
        /\ initial_quantity["SKU1"] > 0

-----------------------------------------------------------------------------
(* C2: all-or-nothing on failure.  The step in which a call returns        *)
(* ok = False (order missing, entry without id, item missing, insufficient *)
(* stock on any entry, an exception after the write phase, a store error)  *)
(* leaves every item's quantity and history and every order unchanged, and *)
(* no step other than the return of a successful call changes them.        *)
C2_AllOrNothingOnFailure ==
    [][/\ \A p \in Procs : Returns(p) /\ ~result'[p].ok => store' = store
       /\ store' # store => \E p \in Procs : Returns(p) /\ result'[p].ok]_vars

(* A call failed on its second line entry (SKU2) after its first entry     *)
(* (SKU1) had passed the stock check; nothing was sold.                    *)
C2_Witness ==
    \E p \in Procs :
        /\ pc[p] = "done" /\ ~result[p].ok
        /\ Len(result[p].message) > 2
        /\ result[p].message[2] = "InsufficientStock" /\ result[p].message[3] = NameOf("SKU2")
        /\ Quantities = initial_quantity
        /\ \A i \in ItemIds : Len(history[i]) <= 1
        /\ \A o \in OrderIds : orders[o].status # "completed"

-----------------------------------------------------------------------------
(* The sum of quantity_change over the sale records of a history.          *)
IsSaleRecord(r) == r.type \in {"Venta (Pedido)", "Venta Directa"}

RECURSIVE SumSaleChanges(_)
SumSaleChanges(h) ==
    IF h = <<>> THEN 0
    ELSE (IF IsSaleRecord(Head(h)) THEN Head(h).quantity_change ELSE 0)
         + SumSaleChanges(Tail(h))

(* C3: no lost updates.  In every reachable state each item's quantity is  *)
(* its initial quantity plus the sum of quantity_change over the sale      *)
(* records (order sale, direct sale) appended to its history.              *)
C3_NoLostUpdates ==
    \A i \in ItemIds :
        inventory[i].quantity = initial_quantity[i] + SumSaleChanges(history[i])

-----------------------------------------------------------------------------
(* The scenario of C4: orders O1 and O2 each consist of one line entry     *)
(* requesting the whole initial stock of SKU1; exactly two calls were      *)
(* made, complete_order on O1 and on O2 by the two callers, both have      *)
(* returned, and neither was cut short by a store failure.                 *)
IsStoreError(r) == ~r.ok /\ Len(r.message) > 1 /\ r.message[2] = "StoreError"

TwoCompletionsOfFullStock ==
    /\ orders["O1"].ingredients = <<Line("SKU1", initial_quantity["SKU1"])>>
    /\ orders["O2"].ingredients = <<Line("SKU1", initial_quantity["SKU1"])>>
    /\ ncalls = 2
    /\ \A p \in Procs : pc[p] = "done" /\ call[p].op = "complete_order"
                        /\ ~IsStoreError(result[p])
    /\ {call[p].order_id : p \in Procs} = {"O1", "O2"}

ExactlyOneCompletion ==
    /\ Cardinality({p \in Procs : result[p].ok}) = 1
    /\ inventory["SKU1"].quantity = 0
    /\ Cardinality({o \in OrderIds : orders[o].status = "completed"}) = 1
    /\ Len(history["SKU1"]) = 2

-----------------------------------------------------------------------------
(* Vocabulary of the effect of one successful call (action level).         *)

(* The step is the return of a successful call of p.                       *)
Succeeds(p) == Returns(p) /\ result'[p].ok

(* The line entries of the call that reference item i, in list order.      *)
EntriesFor(lines, i) == SelectSeq(lines, LAMBDA e : e.id = i)

(* The history records the step appends to item i.                         *)
Appended(i) == SubSeq(history'[i], Len(history[i]) + 1, Len(history'[i]))

(* History only grows in the step, and what was there is untouched.        *)
HistoryExtended(i) ==
    /\ Len(history'[i]) >= Len(history[i])
    /\ SubSeq(history'[i], 1, Len(history[i])) = history[i]

(* The step appends to item i one record per line entry referencing i,     *)
(* of the given type, with quantity_change = -quantity and a reference to  *)
(* ref in its details.                                                     *)
AppendsOnePerEntry(lines, i, type, ref) ==
    /\ HistoryExtended(i)
    /\ Len(Appended(i)) = Len(EntriesFor(lines, i))
    /\ \A k \in 1..Len(Appended(i)) :
          /\ Appended(i)[k].type = type
          /\ Appended(i)[k].quantity_change = 0 - EntriesFor(lines, i)[k].quantity
          /\ Appended(i)[k].details[2] = ref

ReferencedItems(lines) == {lines[k].id : k \in 1..Len(lines)}

UntouchedItems(lines) ==
    \A i \in ItemIds \ ReferencedItems(lines) :
        inventory'[i] = inventory[i] /\ history'[i] = history[i]

(* C5: a successful complete_order(order_id) applies the whole write phase *)
(* at once: for each line entry the referenced item's quantity becomes its *)
(* quantity before the step minus the requested quantity, one history      *)
(* record of type "Venta (Pedido)" with quantity_change = -requested and   *)
(* the order id in its details is appended to that item, the order becomes *)
(* completed with completed_at set, its other fields are unchanged, and    *)
(* the other orders and the items not referenced are unchanged.            *)
C5_CompleteOrderEffect ==
    [][\A p \in Procs :
          Succeeds(p) /\ call[p].op = "complete_order" =>
             LET o == call[p].order_id
                 lines == orders[o].ingredients
             IN /\ \A k \in 1..Len(lines) :
                      /\ inventory'[lines[k].id].quantity
                            = inventory[lines[k].id].quantity - lines[k].quantity
                      /\ AppendsOnePerEntry(lines, lines[k].id, "Venta (Pedido)", o)
                /\ orders'[o] = [orders[o] EXCEPT !.status = "completed",
                                                 !.completed_at = "now"]
                /\ \A x \in OrderIds \ {o} : orders'[x] = orders[x]
                /\ UntouchedItems(lines)]_vars

(* C6: a successful process_direct_sale(items_sold, sale_id) decrements    *)
(* each referenced item's quantity by the line entry's quantity, appends   *)
(* to each such item one history record of type "Venta Directa" with       *)
(* quantity_change = -quantity and the sale id in its details, and leaves  *)
(* every order record as it was.                                           *)
C6_DirectSaleEffect ==
    [][\A p \in Procs :
          Succeeds(p) /\ call[p].op = "process_direct_sale" =>
             LET lines == call[p].items_sold
             IN /\ \A k \in 1..Len(lines) :
                      /\ inventory'[lines[k].id].quantity
                            = inventory[lines[k].id].quantity - lines[k].quantity
                      /\ AppendsOnePerEntry(lines, lines[k].id, "Venta Directa",
                                            call[p].sale_id)
                /\ orders' = orders
                /\ UntouchedItems(lines)]_vars

-----------------------------------------------------------------------------
(* The line entries of the call of p, as the call itself sees them.        *)
CallLines(p) ==
    IF call[p].op = "complete_order"
    THEN orders[call[p].order_id].ingredients
    ELSE call[p].items_sold

-----------------------------------------------------------------------------
(* The low-stock warnings of a returned successful call, entry by entry:   *)
(* entry k wrote quantity WrittenQuantity(p, k) to its item.               *)
WrittenQuantity(p, k) == txn[p].writes[2 * k - 1].quantity

AlertOf(p, k) ==
    [id |-> txn[p].items_to_update[k].id,
     new_quantity |-> WrittenQuantity(p, k),
     min_stock_alert |-> txn[p].items_to_update[k].item_data.min_stock_alert]

HasAlert(p, k) ==
    \E a \in 1..Len(result[p].alerts) : result[p].alerts[a] = AlertOf(p, k)

ThresholdSet(p, k) == txn[p].items_to_update[k].item_data.min_stock_alert # Unset
Threshold(p, k) == txn[p].items_to_update[k].item_data.min_stock_alert[1]

Returned(p) == pc[p] = "done" /\ result[p].ok

(* C8: the warnings returned by a successful call contain a warning for a  *)
(* line entry's item if and only if the item's min_stock_alert is set and  *)
(* 0 < new_quantity <= min_stock_alert, where new_quantity is the quantity *)
(* written for that entry; there are exactly as many warnings as entries   *)
(* that satisfy the condition.                                             *)
C8_LowStockWarnings ==
    \A p \in Procs :
        Returned(p) =>
            /\ \A k \in 1..Len(txn[p].items_to_update) :
                  /\ WrittenQuantity(p, k) = txn[p].items_to_update[k].new_quantity
                  /\ HasAlert(p, k) <=>
                        /\ ThresholdSet(p, k)
                        /\ 0 < WrittenQuantity(p, k)
                        /\ WrittenQuantity(p, k) <= Threshold(p, k)
            /\ Len(result[p].alerts)
                  = Cardinality({k \in 1..Len(txn[p].items_to_update) :
                                    /\ ThresholdSet(p, k)
                                    /\ 0 < WrittenQuantity(p, k)
                                    /\ WrittenQuantity(p, k) <= Threshold(p, k)})

(* One call left SKU1 exactly at its threshold and returned one warning;   *)
(* another left it above the threshold and returned none.                  *)
C8_Witness ==
    \E p \in Procs, q \in Procs :
        /\ Returned(p) /\ Len(result[p].alerts) = 1
        /\ result[p].alerts[1].id = "SKU1"
        /\ result[p].alerts[1].new_quantity = MinAlert
        /\ Returned(q) /\ result[q].alerts = <<>>
        /\ Len(txn[q].items_to_update) = 1
        /\ txn[q].items_to_update[1].id = "SKU1"
        /\ txn[q].items_to_update[1].new_quantity > MinAlert

(* C9 as stated: a warning is emitted whenever a successful call leaves an *)
(* item's new quantity at or below its threshold and non-negative,         *)
(* including a new quantity of exactly 0.                                  *)
C9_WarningAtOrBelowThreshold ==
    \A p \in Procs :
        Returned(p) =>
            \A k \in 1..Len(txn[p].items_to_update) :
                /\ ThresholdSet(p, k)
                /\ 0 <= WrittenQuantity(p, k)
                /\ WrittenQuantity(p, k) <= Threshold(p, k)
                => HasAlert(p, k)

(* C9 amended: a warning is emitted whenever the new quantity is at or     *)
(* below the threshold and strictly positive; an item sold out (new        *)
(* quantity exactly 0) gets no warning.                                    *)
C9_WarningAboveZeroOnly ==
    \A p \in Procs :
        Returned(p) =>
            \A k \in 1..Len(txn[p].items_to_update) :
                /\ (/\ ThresholdSet(p, k)
                    /\ 0 < WrittenQuantity(p, k)
                    /\ WrittenQuantity(p, k) <= Threshold(p, k)) => HasAlert(p, k)
                /\ WrittenQuantity(p, k) = 0 => ~HasAlert(p, k)

(* A successful call sold SKU1 (which has a threshold) out and returned no *)
(* warning.                                                                *)
C9_Witness ==
    \E p \in Procs :
        /\ Returned(p)
        /\ Len(txn[p].items_to_update) = 1
        /\ txn[p].items_to_update[1].id = "SKU1"
        /\ txn[p].items_to_update[1].item_data.quantity > 0
        /\ WrittenQuantity(p, 1) = 0
        /\ inventory["SKU1"].quantity = 0
        /\ result[p].alerts = <<>>

-----------------------------------------------------------------------------
(* C10: strict two-phase discipline.  In every attempt of either function  *)
(* no read follows a write, and a committed attempt has read the order (if *)
(* any) and the item of every line entry before its first write.           *)
NoReadAfterWrite(log) ==
    \A j \in 1..Len(log), k \in 1..Len(log) : j < k => ~(log[j] = "w" /\ log[k] = "r")

Reads(log) == Cardinality({k \in 1..Len(log) : log[k] = "r"})

C10_TwoPhase ==
    \A p \in Procs :
        /\ NoReadAfterWrite(txn[p].oplog)
        /\ Returned(p) =>
              /\ Reads(txn[p].oplog)
                    = Len(txn[p].items_to_update)
                      + (IF call[p].op = "complete_order" THEN 1 ELSE 0)
              /\ Len(txn[p].oplog) = Reads(txn[p].oplog) + Len(txn[p].writes)

(* A completed order with two line entries: three reads, then five writes. *)
C10_Witness ==
    \E p \in Procs :
        /\ Returned(p)
        /\ call[p].op = "complete_order"
        /\ txn[p].oplog = <<"r", "r", "r", "w", "w", "w", "w", "w">>

-----------------------------------------------------------------------------
(* The result of a call that has ended is the tuple (ok, message, alerts). *)
IsFailureResult(r) ==
    /\ ~r.ok
    /\ Len(r.message) >= 2
    /\ r.message[1] = "Error en la transaccion"
    /\ r.alerts = <<>>

ErrorCauses ==
    {"OrderNotFound", "MalformedLineEntry", "ItemNotFound", "InsufficientStock",
     "KeyError", "CommitFailed", "StoreError"}

(* C11: complete_order and process_direct_sale never raise.  A call that   *)
(* has started either is still running or has returned a tuple; every     *)
(* error (validation, missing document, malformed entry, exception after   *)
(* the write phase, store or commit failure) is returned as                *)
(* (False, message, []) with the cause in the message, and the step that   *)
(* returns ok = True is the commit of exactly the writes of the attempt,   *)
(* which nobody had invalidated.                                           *)
C11_ErrorsReturnedAsResult ==
    /\ [](\A p \in Procs :
            /\ pc[p] \in {"idle", "read_order", "read_items", "done"}
            /\ pc[p] = "done" /\ ~result[p].ok
                  => IsFailureResult(result[p]) /\ result[p].message[2] \in ErrorCauses)
    /\ [][\A p \in Procs :
            Returns(p) /\ result'[p].ok
                => /\ ~txn[p].conflict
                   /\ txn'[p].writes # <<>>
                   /\ StoreRec' = ApplyWrites(StoreRec, txn'[p].writes)]_vars

(* One call failed on the missing title after its write phase and returned *)
(* the failure tuple; another one committed and returned ok = True.        *)
C11_Witness ==
    \E p \in Procs, q \in Procs :
        /\ pc[p] = "done" /\ IsFailureResult(result[p])
        /\ result[p].message[2] = "KeyError" /\ result[p].message[3] = "title"
        /\ pc[q] = "done" /\ result[q].ok
        /\ call[q].op = "complete_order"
        /\ orders[call[q].order_id].status = "completed"

-----------------------------------------------------------------------------
(* The check a line entry fails against the store as it is now, in the     *)
(* order the read loop makes the checks; "None" when it passes them all.   *)
FailedCheck(e) ==
    IF e.id = NoId THEN "MalformedLineEntry"
    ELSE IF ~inventory[e.id].exists THEN "ItemNotFound"
    ELSE IF inventory[e.id].quantity < e.quantity THEN "InsufficientStock"
    ELSE None

(* The entry of the attempt that passed the checks against what was read.  *)
PassedWhenRead(u, e) ==
    /\ e.id # NoId
    /\ u.id = e.id
    /\ u.item_data.exists
    /\ u.item_data.quantity >= e.quantity

ValidationCauses == {"MalformedLineEntry", "ItemNotFound", "InsufficientStock"}

(* C12: fail-fast error identity of complete_order.  The step that reads   *)
(* a line entry failing a check ends the call at once, and a call that     *)
(* ends with a validation error was at the first entry, in list order,     *)
(* that fails a check: all entries before it passed theirs when read, the  *)
(* error names the check this entry fails (no id, item not found,          *)
(* insufficient stock) and the entry's item, and an insufficient-stock     *)
(* error carries the entry's requested quantity and the item's quantity as *)
(* read by the transaction.                                                *)
C12_FailFastErrorIdentity ==
    [][\A p \in Procs :
          call[p].op = "complete_order" /\ pc[p] = "read_items" /\ StepOf(p) =>
             LET lines == txn[p].order_data.ingredients
                 k == txn[p].idx
                 msg == result'[p].message
             IN /\ k <= Len(lines) /\ FailedCheck(lines[k]) # None
                      => /\ Returns(p) /\ ~result'[p].ok
                         /\ msg[2] \in {FailedCheck(lines[k]), "StoreError"}
                /\ Returns(p) /\ ~result'[p].ok /\ msg[2] \in ValidationCauses
                      => /\ k <= Len(lines)
                         /\ \A j \in 1..(k - 1) :
                               PassedWhenRead(txn[p].items_to_update[j], lines[j])
                         /\ msg[2] = FailedCheck(lines[k])
                         /\ msg[3] = lines[k].name
                         /\ msg[2] = "InsufficientStock"
                               => /\ msg[4] = lines[k].quantity
                                  /\ msg[5] = inventory[lines[k].id].quantity]_vars

(* Stock MaxQty - 1, requested MaxQty: the call was refused with           *)
(* InsufficientStock(SKU1, MaxQty, MaxQty - 1); another call was refused   *)
(* on its second entry, whose item does not exist.                         *)
C12_Witness ==
    \E p \in Procs, q \in Procs :
        /\ pc[p] = "done" /\ call[p].op = "complete_order"
        /\ result[p].message
              = <<"Error en la transaccion", "InsufficientStock", NameOf("SKU1"),
                  MaxQty, MaxQty - 1>>
        /\ pc[q] = "done" /\ call[q].op = "complete_order"
        /\ orders[call[q].order_id].ingredients = <<Line("SKU1", 1), Line("SKU3", 1)>>
        /\ result[q].message = <<"Error en la transaccion", "ItemNotFound", NameOf("SKU3")>>

-----------------------------------------------------------------------------
(* The step is operation op of the shop, made by caller p.                 *)
Did(p, op) ==
    /\ ncalls' = ncalls + 1
    /\ call'[p].op = op
    /\ call'[p].n = ncalls'

(* C13: completed is terminal.  Once an order's status is completed, no    *)
(* step of any operation (complete_order, cancel_order, create_order,      *)
(* save_inventory_item, delete_inventory_item) changes its status or       *)
(* removes the order; an order in process only becomes completed or is     *)
(* deleted.                                                                *)
C13_CompletedIsTerminal ==
    [][\A o \in OrderIds :
          /\ orders[o].status = "completed"
                => orders'[o].exists /\ orders'[o].status = "completed"
          /\ orders[o].status = "processing"
                => orders'[o].status \in {"processing", "completed", "deleted"}]_vars

-----------------------------------------------------------------------------
(* C14: complete_order deducts stock only for an order in process.  No     *)
(* step of a complete_order call on an order whose status is not           *)
(* "processing" (already completed) changes an item's quantity or appends  *)
(* a history record, so the entries of an order are deducted at most once. *)
C14_DeductedAtMostOnce ==
    [][\A p \in Procs :
          /\ StepOf(p) /\ call[p].op = "complete_order"
          /\ orders[call[p].order_id].status = "completed"
          => inventory' = inventory /\ history' = history]_vars

-----------------------------------------------------------------------------
(* C15: a cancel_order(order_id) call that returns removes the order       *)
(* document and changes nothing else: every item's quantity and history    *)
(* and every other order are as before the call.                           *)
C15_CancelHasNoStockEffect ==
    [][\A p \in Procs :
          Did(p, "cancel_order") /\ result'[p].ok =>
             /\ ~orders'[call'[p].order_id].exists
             /\ \A o \in OrderIds \ {call'[p].order_id} : orders'[o] = orders[o]
             /\ inventory' = inventory
             /\ history' = history]_vars

(* Order O1 was cancelled while a second order, created before, stays, and *)
(* no stock has moved.                                                     *)
C15_Witness ==
    \E p \in Procs :
        /\ call[p].op = "cancel_order" /\ call[p].order_id = "O1" /\ result[p].ok
        /\ ~orders["O1"].exists
        /\ \E o \in OrderIds : orders[o].exists /\ orders[o].title = "T2"
        /\ Quantities = initial_quantity
        /\ \A i \in ItemIds : Len(history[i]) <= 1

-----------------------------------------------------------------------------
(* C16: price snapshots are stable.  As long as an order exists, no step   *)
(* (price edit or other upsert of the item, deletion of the item,          *)
(* complete_order on this or another order, another order's creation or    *)
(* cancellation) changes its line entries or their price snapshots; in     *)
(* particular they are the same before and after it becomes completed.     *)
C16_SnapshotsStable ==
    [][\A o \in OrderIds :
          orders[o].exists /\ orders'[o].exists
              => orders'[o].ingredients = orders[o].ingredients]_vars

(* O1 is completed and still carries the sale price of its creation, while *)
(* the item's sale price has been edited since.                            *)
C16_Witness ==
    /\ orders["O1"].status = "completed"
    /\ orders["O1"].ingredients[1].sale_price = 15
    /\ orders["O1"].ingredients[1].purchase_price = 10
    /\ inventory["SKU1"].sale_price = Some(20)

-----------------------------------------------------------------------------
(* A line entry carries the snapshot of the prices of item doc.            *)
HasSnapshotOf(e, doc) ==
    /\ {"purchase_price", "sale_price"} \subseteq DOMAIN e
    /\ e.purchase_price = Get(doc.purchase_price, 0)
    /\ e.sale_price = Get(doc.sale_price, 0)

(* C17: a create_order call that returns has persisted an order in which   *)
(* every line entry carries a purchase-price and a sale-price snapshot     *)
(* equal to the prices the referenced item has at that moment.             *)
C17_EveryEntrySnapshotted ==
    [][\A p \in Procs :
          Did(p, "create_order") /\ result'[p].ok =>
             LET o == result'[p].message[1]
                 lines == orders'[o].ingredients
             IN /\ ~orders[o].exists /\ orders'[o].exists
                /\ Len(lines) = Len(call'[p].ingredients)
                /\ \A k \in 1..Len(lines) :
                      HasSnapshotOf(lines[k], inventory[lines[k].id])]_vars

-----------------------------------------------------------------------------
(* C18: a save_inventory_item(data, custom_id, is_new) call that returns   *)
(* has merged the fields of data into the item (created if absent, fields  *)
(* not in data kept) and appended exactly one history record to that item: *)
(* type "Stock Inicial" if is_new and "Ajuste Manual" otherwise, with      *)
(* quantity_change the quantity of data, or None when data has none.       *)
C18_UpsertAppendsOneRecord ==
    [][\A p \in Procs :
          Did(p, "save_inventory_item") /\ result'[p].ok =>
             LET c == call'[p]
                 i == c.custom_id
                 rec == history'[i][Len(history'[i])]
             IN /\ inventory'[i].exists
                /\ \A f \in {"min_stock_alert", "purchase_price", "sale_price"} :
                      inventory'[i][f] = IF c.data[f] # Unset THEN c.data[f]
                                         ELSE inventory[i][f]
                /\ inventory'[i].quantity = IF c.data.quantity # Unset
                                             THEN c.data.quantity[1]
                                             ELSE inventory[i].quantity
                /\ Len(history'[i]) = Len(history[i]) + 1
                /\ SubSeq(history'[i], 1, Len(history[i])) = history[i]
                /\ rec.type = (IF c.is_new THEN "Stock Inicial" ELSE "Ajuste Manual")
                /\ IF c.data.quantity = Unset
                   THEN rec.quantity_change = None
                   ELSE rec.quantity_change = c.data.quantity[1]
                /\ \A j \in ItemIds \ {i} :
                      inventory'[j] = inventory[j] /\ history'[j] = history[j]
                /\ orders' = orders]_vars

(* SKU1 got a new sale price by an edit that does not touch the quantity:  *)
(* its history has one more record, "Ajuste Manual" with no quantity       *)
(* change; and a new item SKU3 was created with its "Stock Inicial".       *)
C18_Witness ==
    \E p \in Procs :
        /\ call[p].op = "save_inventory_item" /\ result[p].ok
        /\ call[p].custom_id = "SKU1" /\ ~call[p].is_new
        /\ call[p].data = ItemData(Unset, Unset, Unset, Some(20))
        /\ inventory["SKU1"].sale_price = Some(20)
        /\ inventory["SKU1"].quantity = initial_quantity["SKU1"]
        /\ Len(history["SKU1"]) = 2
        /\ history["SKU1"][2].type = "Ajuste Manual"
        /\ history["SKU1"][2].quantity_change = None
        /\ inventory["SKU3"].exists
        /\ Len(history["SKU3"]) = 1
        /\ history["SKU3"][1].type = "Stock Inicial"
        /\ history["SKU3"][1].quantity_change = MaxQty

-----------------------------------------------------------------------------
(* The alerts of the stock adjuster's handlers.                            *)
AdjusterAlerts ==
    {m \in sent' \ sent :
        m[1] \in {"Pedido Completado", "Venta Rapida Procesada", "ALERTA DE STOCK"}}

(* The alerts about the call of caller p: its completion or sale message   *)
(* and the low-stock warnings it returned.                                 *)
CallAlerts(p) ==
    {<<"Pedido Completado", txn[p].order_data.title>>,
     <<"Venta Rapida Procesada", call[p].sale_id>>}
    \cup {<<"ALERTA DE STOCK", result[p].alerts[k]>> : k \in 1..Len(result[p].alerts)}

(* The step is the end of caller p's handler, after its call returned.     *)
HandlerEnds(p) == pc[p] = "done" /\ pc'[p] = "idle"

(* C19: notification is outside the transaction.  A completion or sale     *)
(* alert or a low-stock alert is sent only in the step that ends the       *)
(* handler of a call that has returned ok = True (so after the commit);    *)
(* the handler of a failed call sends nothing; and the step that ends a    *)
(* handler, whether the alerts were delivered or not, leaves every item's  *)
(* quantity and history and every order as committed.                      *)
C19_NotifyAfterCommit ==
    [][/\ AdjusterAlerts # {}
            => \E p \in Procs :
                  /\ HandlerEnds(p) /\ result[p].ok
                  /\ AdjusterAlerts \subseteq CallAlerts(p)
       /\ \A p \in Procs :
             HandlerEnds(p) => /\ store' = store
                               /\ ~result[p].ok => sent' = sent]_vars

(* The completion of O1 was committed and both its alerts were sent; a     *)
(* failed call's handler has ended and sent nothing.                       *)
C19_Witness ==
    /\ orders["O1"].status = "completed"
    /\ <<"Pedido Completado", "T">> \in sent
    /\ \E m \in sent : m[1] = "ALERTA DE STOCK"
    /\ \E p \in Procs : pc[p] = "idle" /\ call[p].op = "complete_order" /\ ~result[p].ok
    /\ Cardinality(sent) = 2

-----------------------------------------------------------------------------
(* C20: every call returns.  A complete_order or process_direct_sale call  *)
(* that is running eventually returns; no call makes more than MaxAttempts *)
(* attempts; and a call whose last attempt is aborted as well returns      *)
(* ok = False with the cause, after MaxAttempts attempts, with none of its *)
(* writes applied.                                                         *)
C20_EveryCallReturns ==
    /\ \A p \in Procs : InFlight(p) ~> pc[p] = "done"
    /\ [](\A p \in Procs : txn[p].attempt <= MaxAttempts)
    /\ [][\A p \in Procs :
            /\ Returns(p) /\ txn[p].conflict
                  => /\ ~result'[p].ok
                     /\ result'[p].message[2] \in {"CommitFailed", "StoreError", "KeyError"}
                     /\ store' = store
            /\ Returns(p) /\ result'[p].message # <<>>
                          /\ result'[p].message[2] = "CommitFailed"
                  => /\ txn[p].attempt = MaxAttempts
                     /\ result'[p].message[3] = MaxAttempts
                     /\ store' = store]_vars

(* The completion of O1 was aborted MaxAttempts times by sales of the same *)
(* item and has returned the failure; O1 is still in process and only the  *)
(* sales have been deducted.                                               *)
C20_Witness ==
    \E p \in Procs :
        /\ pc[p] = "done" /\ call[p].op = "complete_order"
        /\ result[p] = Failure(<<"CommitFailed", MaxAttempts>>)
        /\ txn[p].attempt = MaxAttempts
        /\ orders["O1"].status = "processing"
        /\ inventory["SKU1"].quantity = initial_quantity["SKU1"] - MaxAttempts
        /\ Len(history["SKU1"]) = 1 + MaxAttempts


-----------------------------------------------------------------------------
(* The reads of FirebaseManager: get_all_inventory_items,                  *)
(* get_inventory_item_history, get_orders and get_all_suppliers.           *)

MaxTime == 2

(* Names.  A name is a word (its rank in alphabetical order, rank 0 being  *)
(* the empty string) written with or without an initial capital; Python    *)
(* compares strings by code point, so "Ana" < "ana" < "Bo" < "bo".         *)
Name(rank, upper) == [rank |-> rank, upper |-> upper]
EmptyName == Name(0, FALSE)
lower(name) == [name EXCEPT !.upper = FALSE]
StrOrd(name) == 2 * name.rank + (IF name.upper THEN 0 ELSE 1)

(* Timestamps as the store hands them back: a datetime with or without     *)
(* tzinfo (t is the wall-clock hour, the offset that of its timezone), an  *)
(* ISO string, or no field at all.                                         *)
Naive(t) == [kind |-> "datetime", t |-> t, tzinfo |-> Unset]
Aware(t, utcoffset) == [kind |-> "datetime", t |-> t, tzinfo |-> Some(utcoffset)]
IsoString(t) == [kind |-> "str", t |-> t, tzinfo |-> Unset]
NoTimestamp == [kind |-> "None", t |-> 0, tzinfo |-> Unset]

(* datetime.min.replace(tzinfo=timezone.utc): before every other instant.  *)
DatetimeMin == -1
DatetimeMinUtc == Aware(DatetimeMin, 0)

(* order['timestamp_obj']: a datetime without tzinfo is labelled UTC, one  *)
(* with tzinfo is kept, anything else becomes datetime.min in UTC.         *)
timestamp_obj(ts) ==
    IF ts.kind = "datetime"
    THEN (IF ts.tzinfo = Unset THEN [ts EXCEPT !.tzinfo = Some(0)] ELSE ts)
    ELSE DatetimeMinUtc

(* The instant of an aware datetime: what the comparison of two aware      *)
(* datetimes compares.                                                     *)
Instant(d) == d.t - d.tzinfo[1]

(* Mutant: the sort is not stable, elements with equal keys come out in    *)
(* an order that depends on the call.                                      *)
sorted_Unstable(xs, key, reverse) ==
    LET n == Len(xs)
        Precedes(j, i) == IF reverse THEN key[j] > key[i] ELSE key[j] < key[i]
        Tie(j, i) == IF ncalls % 2 = 0 THEN j < i ELSE j > i
        pos(i) == 1 + Cardinality({j \in 1..n :
                                      Precedes(j, i) \/ (key[j] = key[i] /\ Tie(j, i))})
    IN  [k \in 1..n |-> xs[CHOOSE i \in 1..n : pos(i) = k]]

(* sorted(xs, key=..., reverse=...): Python's sort is stable, also with    *)
(* reverse=True: elements with equal keys keep their order in xs.          *)
sorted(xs, key, reverse) ==
    LET n == Len(xs)
        Precedes(j, i) == IF reverse THEN key[j] > key[i] ELSE key[j] < key[i]
        pos(i) == 1 + Cardinality({j \in 1..n :
                                      Precedes(j, i) \/ (key[j] = key[i] /\ j < i)})
    IN  [k \in 1..n |-> xs[CHOOSE i \in 1..n : pos(i) = k]]

(* collection.stream(): the documents of the collection with their ids, in *)
(* ascending order of document id.                                         *)
ItemIdSeq == <<"SKU1", "SKU2", "SKU3">>
OrderIdSeq == <<"O1", "O2", "O3">>
SupplierIdSeq == <<"S1", "S2">>
Stream(collection, ids) ==
    LET docs == [k \in 1..Len(ids) |-> [id |-> ids[k]] @@ collection[ids[k]]]
    IN  SelectSeq(docs, LAMBDA d : d.exists)

(* x.get('name', '').lower() as a sort key.                                *)
NameKey(x) == StrOrd(lower(IF "name" \in DOMAIN x THEN x.name ELSE EmptyName))

(* What a read returns, and what its except clause returns.                *)
ReturnedValue(v) == [ok |-> TRUE, message |-> <<>>, alerts |-> <<>>, value |-> v]
ReadFailure_Raises == Raised("StoreError")
ReadFailure == ReturnedValue(<<>>)

(* What a read leaves alone: the whole store.                              *)
Untouched == <<inventory, history, orders, txn, sent, suppliers, usb_sale_items>>

(* FirebaseManager.get_all_inventory_items().                              *)
get_all_inventory_items(p, fails) ==
    /\ LET items == Stream(inventory, ItemIdSeq)
       IN  Operation(p, [op |-> "get_all_inventory_items", fails |-> fails,
                         n |-> ncalls + 1],
                     IF fails THEN ReadFailure
                     ELSE ReturnedValue(sorted(items,
                                               [k \in 1..Len(items) |-> NameKey(items[k])],
                                               FALSE)))
    /\ UNCHANGED Untouched

(* order_by("timestamp", DESCENDING): the records of the item, the latest  *)
(* first.                                                                  *)
Descending(h) == [k \in 1..Len(h) |-> h[Len(h) + 1 - k]]

(* FirebaseManager.get_inventory_item_history(doc_id).                     *)
get_inventory_item_history(p, doc_id, fails) ==
    /\ Operation(p, [op |-> "get_inventory_item_history", doc_id |-> doc_id,
                     fails |-> fails, n |-> ncalls + 1],
                 IF fails THEN ReadFailure
                 ELSE ReturnedValue(Descending(history[doc_id])))
    /\ UNCHANGED Untouched

(* Mutant: the status filter is ignored.                                   *)
Where_Unfiltered(docs, status) == docs

(* query.where('status' == status) when a status is given.                 *)
Where(docs, status) ==
    IF status = None THEN docs ELSE SelectSeq(docs, LAMBDA d : d.status = status)

(* FirebaseManager.get_orders(status).                                     *)
get_orders(p, status, fails) ==
    /\ LET docs == Where(Stream(orders, OrderIdSeq), status)
           os == [k \in 1..Len(docs) |->
                    [timestamp_obj |->
                        timestamp_obj(IF "timestamp" \in DOMAIN docs[k]
                                      THEN docs[k].timestamp ELSE NoTimestamp)] @@ docs[k]]
       IN  Operation(p, [op |-> "get_orders", status |-> status, fails |-> fails,
                         n |-> ncalls + 1],
                     IF fails THEN ReadFailure
                     ELSE ReturnedValue(sorted(os,
                                               [k \in 1..Len(os) |->
                                                   Instant(os[k].timestamp_obj)],
                                               TRUE)))
    /\ UNCHANGED Untouched

(* FirebaseManager.get_all_suppliers().                                    *)
get_all_suppliers(p, fails) ==
    /\ LET docs == Stream(suppliers, SupplierIdSeq)
       IN  Operation(p, [op |-> "get_all_suppliers", fails |-> fails, n |-> ncalls + 1],
                     IF fails THEN ReadFailure
                     ELSE ReturnedValue(sorted(docs,
                                               [k \in 1..Len(docs) |-> NameKey(docs[k])],
                                               FALSE)))
    /\ UNCHANGED Untouched

(* FirebaseManager.delete_supplier(supplier_id).                           *)
delete_supplier(p, supplier_id) ==
    /\ Operation(p, [op |-> "delete_supplier", supplier_id |-> supplier_id,
                     n |-> ncalls + 1], Returned_None)
    /\ suppliers' = [suppliers EXCEPT ![supplier_id] = NoSupplierDoc]
    /\ UNCHANGED <<inventory, history, orders, txn, sent, usb_sale_items>>

(* The timestamps of the stored orders.                                    *)
Timestamps ==
    {Naive(t) : t \in 1..MaxTime} \cup {Aware(MaxTime, off) : off \in 0..1}
    \cup {IsoString(MaxTime), NoTimestamp}

StoredOrder(status, ts) ==
    LET doc == [OrderDoc(<<Line("SKU1", 1)>>, "T") EXCEPT !.status = status]
    IN  IF ts = NoTimestamp THEN doc ELSE [timestamp |-> ts] @@ doc

(* Items: "Ana", "ana", and one without a name; two history records on     *)
(* the first.  Suppliers: "Bo" and "ana".                                  *)
ReadInit ==
    /\ inventory = [i \in ItemIds |->
                      CASE i = "SKU1" -> [name |-> Name(1, TRUE)] @@ ItemDoc(1, Unset)
                        [] i = "SKU2" -> [name |-> Name(1, FALSE)] @@ ItemDoc(1, Unset)
                        [] OTHER -> ItemDoc(1, Unset)]
    /\ history = [i \in ItemIds |->
                    IF i = "SKU1"
                    THEN InitialHistory(2) \o <<SaleHistory([sold_quantity |-> 1], "SALE-001")>>
                    ELSE InitialHistory(1)]
    /\ \E ts1 \in Timestamps, ts2 \in {Naive(MaxTime), NoTimestamp},
          st \in {"processing", "completed"} :
          orders = [o \in OrderIds |->
                      CASE o = "O1" -> StoredOrder("processing", ts1)
                        [] o = "O2" -> StoredOrder(st, ts2)
                        [] OTHER -> StoredOrder("completed", Naive(1))]
    /\ suppliers = [x \in SupplierIds |->
                      IF x = "S1" THEN SupplierDoc(Name(2, TRUE))
                      ELSE SupplierDoc(Name(1, FALSE))]
    /\ pc = [p \in Procs |-> "idle"]
    /\ call = [p \in Procs |-> NoCall]
    /\ txn = [p \in Procs |-> NewTxn(1)]
    /\ result = [p \in Procs |-> NoResult]
    /\ ncalls = 0
    /\ initial_quantity = [i \in ItemIds |-> 1]
    /\ sent = {}
    /\ usb_sale_items = <<>>

(* Either caller reads; p2 also cancels an order, deletes an item or       *)
(* deletes a supplier.                                                     *)
ReadNext ==
    \/ \E p \in Procs, fails \in BOOLEAN : get_all_inventory_items(p, fails)
    \/ \E p \in Procs, fails \in BOOLEAN : get_inventory_item_history(p, "SKU1", fails)
    \/ \E p \in Procs, status \in {None, "processing", "completed"}, fails \in BOOLEAN :
          get_orders(p, status, fails)
    \/ \E p \in Procs, fails \in BOOLEAN : get_all_suppliers(p, fails)
    \/ \E o \in {"O1", "O2"} : cancel_order("p2", o, FALSE)
    \/ delete_inventory_item("p2", "SKU1")
    \/ delete_supplier("p2", "S2")

ReadSpec == ReadInit /\ [][ReadNext]_vars


-----------------------------------------------------------------------------
ReadOps == {"get_all_inventory_items", "get_inventory_item_history", "get_orders",
            "get_all_suppliers"}

(* The step is a read made by caller p.                                    *)
IsRead(p) == \E op \in ReadOps : Did(p, op)

(* C21: the reads fail soft.  When the store raises during                 *)
(* get_all_inventory_items, get_inventory_item_history, get_orders or      *)
(* get_all_suppliers, the operation returns an empty list instead of       *)
(* raising, and no read, failed or not, changes the inventory, the         *)
(* histories, the orders or the suppliers.                                 *)
C21_ReadsFailSoft ==
    [][\A p \in Procs :
          IsRead(p) =>
              /\ <<store, suppliers>>' = <<store, suppliers>>
              /\ call'[p].fails =>
                    /\ result'[p].ok
                    /\ "value" \in DOMAIN result'[p]
                    /\ result'[p].value = <<>>]_vars

(* get_orders met a store error while three orders were stored, and        *)
(* returned the empty list.                                                *)
C21_Witness ==
    /\ call["p1"].op = "get_orders"
    /\ call["p1"].fails
    /\ result["p1"].ok
    /\ result["p1"].value = <<>>
    /\ \A o \in OrderIds : orders[o].exists


-----------------------------------------------------------------------------
(* The instant a stored timestamp denotes: a string is parsed like a       *)
(* datetime without timezone, a datetime without timezone counts as UTC;   *)
(* a missing timestamp is older than every instant.                        *)
DenotedInstant(doc) ==
    IF "timestamp" \notin DOMAIN doc THEN DatetimeMin
    ELSE IF doc.timestamp.tzinfo = Unset THEN doc.timestamp.t
    ELSE doc.timestamp.t - doc.timestamp.tzinfo[1]

(* The ids of the stored orders that match the filter.                     *)
Matching(status) ==
    {o \in OrderIds : orders[o].exists /\ (status = None \/ orders[o].status = status)}

(* The value lists exactly the orders matching the filter, each once.      *)
ListsExactly(value, status) ==
    /\ {value[k].id : k \in 1..Len(value)} = Matching(status)
    /\ Len(value) = Cardinality(Matching(status))
    /\ \A k \in 1..Len(value) : value[k].status = orders[value[k].id].status

(* C22: get_orders(status) returns exactly the orders matching the filter  *)
(* (all of them without filter), ordered by descending timestamp, where    *)
(* every stored representation (string, datetime with or without           *)
(* timezone) counts as the instant it denotes, and orders without a        *)
(* timestamp come after every order that has one.                          *)
C22_OrdersByTimestampDescending ==
    [][\A p \in Procs :
          (Did(p, "get_orders") /\ ~call'[p].fails) =>
              LET value == result'[p].value
              IN  /\ ListsExactly(value, call'[p].status)
                  /\ \A k \in 1..(Len(value) - 1) :
                        DenotedInstant(value[k]) >= DenotedInstant(value[k + 1])]_vars


-----------------------------------------------------------------------------
HasTie(value, key) ==
    \E j \in 1..Len(value), k \in 1..Len(value) : j < k /\ key[j] = key[k]

-----------------------------------------------------------------------------
(* Order o exists, is in process, and every one of its line entries        *)
(* references an existing item whose quantity is at least the requested    *)
(* one.                                                                    *)
EnabledByStock(o) ==
    /\ orders[o].exists
    /\ orders[o].status = "processing"
    /\ \A k \in 1..Len(orders[o].ingredients) :
          LET e == orders[o].ingredients[k]
          IN  /\ e.id \in ItemIds
              /\ inventory[e.id].exists
              /\ inventory[e.id].quantity >= e.quantity

(* The step is the return of the only call made so far, and not one ended  *)
(* by a failure of the store.                                              *)
ReturnsAlone(p) ==
    /\ Returns(p)
    /\ ncalls = 1
    /\ result'[p].message[2] # "StoreError"

(* C25: completion is enabled exactly by stock.  A complete_order call     *)
(* that runs alone on an existing order in process, every line entry of    *)
(* which references an existing item with at least the requested quantity, *)
(* returns ok = True and leaves the order completed, whatever the order's  *)
(* other fields (a missing title) and the number of its entries (zero).    *)
C25_EnabledByStock ==
    [][\A p \in Procs :
          ( /\ ReturnsAlone(p)
            /\ call[p].op = "complete_order"
            /\ EnabledByStock(call[p].order_id) )
          => /\ result'[p].ok
             /\ orders'[call[p].order_id].status = "completed"]_vars

-----------------------------------------------------------------------------
(* The adjustment of an inventory by a list of line entries, told without  *)
(* reference to orders or sales: whether it is accepted, the quantities it *)
(* leaves, the quantity_change of the records it appends to each item, and *)
(* its low-stock warnings.  Every entry is checked against, and subtracted *)
(* from, the quantity the item had before the adjustment.                  *)
Adjustment(inv, lines) ==
    LET accepted == \A k \in 1..Len(lines) :
                        /\ lines[k].id \in ItemIds
                        /\ inv[lines[k].id].exists
                        /\ inv[lines[k].id].quantity >= lines[k].quantity
        last(i) == EntriesFor(lines, i)[Len(EntriesFor(lines, i))]
        low == SelectSeq(lines, LAMBDA e : LowStock(inv[e.id].min_stock_alert,
                                                    inv[e.id].quantity - e.quantity))
    IN  [ok |-> accepted,
         quantities |-> [i \in ItemIds |->
                           IF accepted /\ EntriesFor(lines, i) # <<>>
                           THEN inv[i].quantity - last(i).quantity
                           ELSE inv[i].quantity],
         changes |-> [i \in ItemIds |->
                        IF accepted
                        THEN [k \in 1..Len(EntriesFor(lines, i)) |->
                                 0 - EntriesFor(lines, i)[k].quantity]
                        ELSE <<>>],
         warnings |-> IF accepted
                      THEN [k \in 1..Len(low) |->
                              [id |-> low[k].id,
                               new_quantity |-> inv[low[k].id].quantity - low[k].quantity,
                               min_stock_alert |-> inv[low[k].id].min_stock_alert]]
                      ELSE <<>>]

(* What the step in which the call of p returns has done, in the same      *)
(* terms.                                                                  *)
Observed(p) ==
    [ok |-> result'[p].ok,
     quantities |-> [i \in ItemIds |-> inventory'[i].quantity],
     changes |-> [i \in ItemIds |->
                    [k \in 1..Len(Appended(i)) |-> Appended(i)[k].quantity_change]],
     warnings |-> result'[p].alerts]

(* C23: order completion and direct sale are the same adjustment.  A       *)
(* process_direct_sale call, and a complete_order call on an existing      *)
(* order in process, each running alone, do what Adjustment says for the   *)
(* inventory and the line entries they are given: so for the same          *)
(* inventory and the same entries they agree on success or failure, on     *)
(* the resulting quantities, on the number and quantity_change of the      *)
(* appended history records and on the low-stock warnings.                 *)
C23_SameAdjustment ==
    [][\A p \in Procs :
          ( /\ ReturnsAlone(p)
            /\ call[p].op = "complete_order"
                  => /\ orders[call[p].order_id].exists
                     /\ orders[call[p].order_id].status = "processing" )
          => Observed(p) = Adjustment(inventory, CallLines(p))]_vars


-----------------------------------------------------------------------------
(* C26: retried attempts leave no trace.  The step in which a call that    *)
(* was re-run after an aborted commit finally succeeds commits what its    *)
(* last attempt read and buffered and nothing else: every item that        *)
(* attempt read is still as it read it, one history record is appended per *)
(* line entry, each item is decremented once from the quantity read in     *)
(* that attempt, and the warnings returned are those of that attempt, i.e. *)
(* the step is the adjustment of the store as it is by the call's entries. *)
C26_RetriesLeaveNoTrace ==
    [][\A p \in Procs :
          Succeeds(p) /\ txn'[p].attempt > 1 =>
             LET lines == CallLines(p)
                 upd == txn'[p].items_to_update
             IN  /\ Len(upd) = Len(lines)
                 /\ \A k \in 1..Len(upd) : upd[k].item_data = inventory[lines[k].id]
                 /\ \A i \in ItemIds :
                       /\ HistoryExtended(i)
                       /\ Len(Appended(i)) = Len(EntriesFor(lines, i))
                 /\ Observed(p) = Adjustment(inventory, lines)]_vars

(* A call whose first attempt was aborted by the other caller's commit has *)
(* succeeded at its second attempt and returned a low-stock warning.       *)
C26_Witness ==
    \E p \in Procs :
        /\ pc[p] = "done"
        /\ result[p].ok
        /\ txn[p].attempt = 2
        /\ Len(result[p].alerts) = 1
        /\ inventory["SKU1"].quantity < initial_quantity["SKU1"] - 1


-----------------------------------------------------------------------------
(* C27: adjustments only decrement.  No step of a complete_order or        *)
(* process_direct_sale call, whatever the quantities of its line entries   *)
(* (zero and negative ones included), leaves an item with a greater        *)
(* quantity than before, and every history record of type "Venta (Pedido)" *)
(* or "Venta Directa" has quantity_change < 0.                             *)
C27_OnlyDecrements ==
    /\ [][\A i \in ItemIds : inventory'[i].quantity <= inventory[i].quantity]_vars
    /\ [](\A i \in ItemIds : \A k \in 1..Len(history[i]) :
             history[i][k].type \in {"Venta (Pedido)", "Venta Directa"}
                 => history[i][k].quantity_change < 0)


-----------------------------------------------------------------------------
(* C28: an item's quantity is changed only inside the adjuster.  When a    *)
(* save_inventory_item call on an existing item carries the quantity that  *)
(* its form read at the start, whatever complete_order/process_direct_sale *)
(* calls have committed on the item since, the decrements of those calls   *)
(* are not overwritten: after the upsert the quantity is still the initial *)
(* quantity plus the quantity_change of every committed sale record.       *)
C28_UpsertKeepsDecrements ==
    [][\A p \in Procs :
          ( /\ Did(p, "save_inventory_item")
            /\ ~call'[p].is_new
            /\ inventory[call'[p].custom_id].exists
            /\ call'[p].data.quantity = Some(initial_quantity[call'[p].custom_id]) )
          => LET i == call'[p].custom_id
             IN  inventory'[i].quantity
                    = initial_quantity[i] + SumSaleChanges(history'[i])]_vars


-----------------------------------------------------------------------------
(* C29: a failed upsert is all-or-nothing.  A save_inventory_item call in  *)
(* which the field merge or the history append fails raises to its caller, *)
(* and leaves the item's fields and its history as they were before the    *)
(* call: the item is never left modified without its history record.       *)
C29_FailedUpsertChangesNothing ==
    [][\A p \in Procs :
          Did(p, "save_inventory_item") /\ result'[p] # Returned_None
          => /\ result'[p] = Raised("StoreError")
             /\ inventory' = inventory
             /\ history' = history]_vars


-----------------------------------------------------------------------------
(* The point of sale: BarcodeManager.add_item_to_sale fills the list of    *)
(* the sale being scanned, st.session_state.usb_sale_items.                *)

MaxScans == 4

EmptyBarcode == ""
Barcodes == ItemIds \cup {EmptyBarcode}

(* The status message returned with the list.                              *)
StatusMsg(status, message) == [status |-> status, message |-> message]

(* Mutant: an entry may be incremented when it already equals the stock.   *)
MayIncrement_AtStock(stock, quantity) == stock >= quantity

(* item_data.get('quantity', 0) > existing_item['quantity'].               *)
MayIncrement(stock, quantity) == stock > quantity

(* The entry of an item scanned for the first time.                        *)
NewSaleItem(item_data, id) ==
    [id |-> id, name |-> NameOf(id),
     sale_price |-> Get(item_data.sale_price, 0),
     purchase_price |-> Get(item_data.purchase_price, 0),
     quantity |-> 1]

(* The index of the first entry of the list with this id, 0 if none:       *)
(* next((item for item in current_sale_items if item['id'] == barcode),    *)
(* None).                                                                  *)
ExistingItem(items, barcode) ==
    LET found == {k \in 1..Len(items) : items[k].id = barcode}
    IN  IF found = {} THEN 0 ELSE CHOOSE k \in found : \A j \in found : k <= j

(* BarcodeManager.add_item_to_sale(barcode, current_sale_items), and the   *)
(* handler's assignment of the returned list to the session state.  The    *)
(* lookup returns None when the read fails.                                *)
add_item_to_sale(p, barcode, read_fails) ==
    /\ pc[p] = "idle"
    /\ ncalls < MaxScans
    /\ ncalls' = ncalls + 1
    /\ call' = [call EXCEPT ![p] = [op |-> "add_item_to_sale", barcode |-> barcode,
                                    read_fails |-> read_fails, n |-> ncalls + 1]]
    /\ IF barcode = EmptyBarcode
       THEN /\ result' = [result EXCEPT ![p] = StatusMsg("error", <<"vacio">>)]
            /\ UNCHANGED usb_sale_items
       ELSE LET item_data == get_inventory_item_details(barcode, read_fails)
                k == ExistingItem(usb_sale_items, barcode)
            IN  IF ~item_data.exists
                THEN /\ result' = [result EXCEPT ![p] =
                                      StatusMsg("error", <<"no encontrado", barcode>>)]
                     /\ UNCHANGED usb_sale_items
                ELSE IF item_data.quantity <= 0
                THEN /\ result' = [result EXCEPT ![p] =
                                      StatusMsg("warning", <<"Stock agotado", NameOf(barcode)>>)]
                     /\ UNCHANGED usb_sale_items
                ELSE IF k # 0
                THEN IF MayIncrement(item_data.quantity, usb_sale_items[k].quantity)
                     THEN /\ usb_sale_items' =
                                [usb_sale_items EXCEPT ![k].quantity = @ + 1]
                          /\ result' = [result EXCEPT ![p] =
                                StatusMsg("success", <<NameOf(barcode), "+1",
                                                       usb_sale_items[k].quantity + 1>>)]
                     ELSE /\ result' = [result EXCEPT ![p] =
                                StatusMsg("warning", <<"No hay mas stock", NameOf(barcode)>>)]
                          /\ UNCHANGED usb_sale_items
                ELSE /\ usb_sale_items' = Append(usb_sale_items,
                                                 NewSaleItem(item_data, barcode))
                     /\ result' = [result EXCEPT ![p] =
                                      StatusMsg("success", <<NameOf(barcode), "anadido">>)]
    /\ UNCHANGED <<inventory, history, orders, pc, txn, initial_quantity, sent, suppliers>>

(* Stock corrections made by another session while the sale is scanned.    *)
StockCorrections == {ItemData(Some(q), Unset, Unset, Unset) : q \in 0..1}

SaleListInit ==
    /\ \E q \in 0..MaxQty :
          inventory = [i \in ItemIds |->
                         CASE i = "SKU1" -> Merge(ItemDoc(q, Unset),
                                                  ItemData(Unset, Unset, Unset, Some(15)))
                           [] i = "SKU2" -> ItemDoc(1, Unset)
                           [] OTHER -> NoItemDoc]
    /\ history = [i \in ItemIds |->
                    IF inventory[i].exists THEN InitialHistory(inventory[i].quantity)
                    ELSE <<>>]
    /\ orders = [o \in OrderIds |-> NoOrderDoc]
    /\ pc = [p \in Procs |-> "idle"]
    /\ call = [p \in Procs |-> NoCall]
    /\ txn = [p \in Procs |-> NewTxn(0)]
    /\ result = [p \in Procs |-> NoResult]
    /\ ncalls = 0
    /\ initial_quantity = [i \in ItemIds |-> inventory[i].quantity]
    /\ sent = {}
    /\ suppliers = NoSuppliers
    /\ usb_sale_items = <<>>

(* p1 scans; p2 corrects the stock of SKU1 or deletes SKU2.                *)
SaleListNext ==
    \/ \E barcode \in Barcodes, read_fails \in BOOLEAN :
          add_item_to_sale("p1", barcode, read_fails)
    \/ \E data \in StockCorrections :
          save_inventory_item("p2", data, "SKU1", FALSE, None, None)
    \/ delete_inventory_item("p2", "SKU2")

SaleListSpec == SaleListInit /\ [][SaleListNext]_vars

-----------------------------------------------------------------------------
(* C30: the invariant of the list of the sale being scanned.  Starting     *)
(* from the empty list, after any sequence of add_item_to_sale calls every *)
(* item id occurs at most once in the list and every entry's quantity is   *)
(* at least 1; an entry is added or changed only by a call for its own     *)
(* barcode, and is then at most the stock that call read for the item; a   *)
(* call with an empty barcode, an unknown barcode or an item whose stock   *)
(* is <= 0 returns a status other than success and leaves the list as it   *)
(* was.                                                                    *)
C30_SaleListInvariant ==
    /\ [](\A j \in 1..Len(usb_sale_items) :
             /\ usb_sale_items[j].quantity >= 1
             /\ \A k \in 1..Len(usb_sale_items) :
                   usb_sale_items[j].id = usb_sale_items[k].id => j = k)
    /\ [][(\A p \in Procs : ~Did(p, "add_item_to_sale"))
             => usb_sale_items' = usb_sale_items]_vars
    /\ [][\A p \in Procs :
             Did(p, "add_item_to_sale") =>
                LET barcode == call'[p].barcode
                IN  /\ Len(usb_sale_items') >= Len(usb_sale_items)
                    /\ \A k \in 1..Len(usb_sale_items') :
                          (k > Len(usb_sale_items) \/ usb_sale_items'[k] # usb_sale_items[k])
                          => /\ usb_sale_items'[k].id = barcode
                             /\ ~call'[p].read_fails
                             /\ usb_sale_items'[k].quantity <= inventory[barcode].quantity
                    /\ (barcode = EmptyBarcode \/ ~inventory[barcode].exists
                                               \/ inventory[barcode].quantity <= 0)
                          => /\ result'[p].status # "success"
                             /\ usb_sale_items' = usb_sale_items]_vars

(* Two items are in the list, the first one with the whole stock of its    *)
(* item, and the last scan of that item was refused with a warning.        *)
C30_Witness ==
    /\ Len(usb_sale_items) = 2
    /\ usb_sale_items[1].id = "SKU1"
    /\ usb_sale_items[1].quantity = inventory["SKU1"].quantity
    /\ usb_sale_items[1].quantity > 1
    /\ call["p1"].op = "add_item_to_sale"
    /\ call["p1"].barcode = "SKU1"
    /\ ~call["p1"].read_fails
    /\ result["p1"].status = "warning"


====
